---- MODULE Spec2Model ----
(***************************************************************************)
(* Token-based account-action authorization of the encyclo-flower backend: *)
(* issuing, storing and consuming the single-use, time-limited tokens that *)
(* gate email verification and password reset.                             *)
(*                                                                         *)
(* Time is counted in hours.  Every request handler (and the background    *)
(* task create_user schedules) runs in one of the request slots of Procs;  *)
(* each of its accesses to the document store or to the mail transport is  *)
(* one step, so that the steps of concurrent requests interleave.          *)
(***************************************************************************)
EXTENDS Integers, Sequences, FiniteSets, TLC

\* ---------------------------------------------------------------- bounds
MaxTokens == 1      \* token values generated in one behaviour of Spec
MaxClock == 96      \* the clock stops advancing here (hours)
TickHours == 48     \* granularity of the clock (hours)
NumProcs == 2       \* concurrent request slots
MaxReissued == 2    \* token values generated in one behaviour of SpecReissue

\* ------------------------------------------------------------- constants
\* "The link will expire in 48 hours."
TTL_EMAIL_VERIFICATION == 48
\* "The link will expire in 24 hours."
TTL_RESET_PASSWORD == 24

EmailVerification == "EmailVerification"
PasswordReset == "PasswordReset"
Purposes == {EmailVerification, PasswordReset}

UserIds == {"u1", "u2"}
Names == {"a", "b"}
Procs == 1..NumProcs
TokenValues == 1..MaxTokens

VARIABLES
    clock,                      \* datetime.utcnow(), in hours
    users,                      \* db.users: user_id -> account document
    email_verification_tokens,  \* db.email_verification_tokens: sequence of documents
    reset_password_tokens,      \* db.reset_password_tokens: sequence of documents
    proc,                       \* the request slots: position and locals of each
    result,                     \* what the step just taken returned or raised, if it
                                \* completed an issue, a create_user, the store step
                                \* of a validate, or left verify_email by an exception
    ledger,                     \* history: one entry per token value generated
    cap                         \* how many token values the behaviour may generate

vars == <<clock, users, email_verification_tokens, reset_password_tokens, proc, result,
          ledger, cap>>

\* ------------------------------------------------------------ token data
TTL(purpose) ==
    IF purpose = EmailVerification THEN TTL_EMAIL_VERIFICATION ELSE TTL_RESET_PASSWORD

\* The token document: a fresh value, the user, created_at and
\* expires_at = created_at + TTL(purpose).
NewToken(value, user_id, purpose, now) ==
    [token |-> value, user_id |-> user_id,
     created_at |-> now, expires_at |-> now + TTL(purpose)]

\* The next fresh token value: values are never reused.
FreshToken == Len(ledger) + 1

\* ------------------------------------------------------------ collections
InsertOne(coll, doc) == Append(coll, doc)

Matches(coll, value) == {i \in 1..Len(coll) : coll[i].token = value}

Holds(coll, value) == Matches(coll, value) # {}

FirstIndex(coll, value) ==
    CHOOSE i \in Matches(coll, value) : \A j \in Matches(coll, value) : i <= j

FindOne(coll, value) == coll[FirstIndex(coll, value)]

\* delete_one: removes the first document with this token value, if any.
DeleteOne(coll, value) ==
    IF Holds(coll, value)
    THEN LET k == FirstIndex(coll, value)
         IN  [i \in 1..(Len(coll) - 1) |-> IF i < k THEN coll[i] ELSE coll[i + 1]]
    ELSE coll

Collection(purpose) ==
    IF purpose = EmailVerification THEN email_verification_tokens
    ELSE reset_password_tokens

Other(purpose) == IF purpose = EmailVerification THEN PasswordReset ELSE EmailVerification

\* ------------------------------------------------------------------ slots
Idle == [pc |-> "idle", purpose |-> "none", uid |-> "none", tok |-> 0]

Slot(pc, purpose, uid, tok) == [pc |-> pc, purpose |-> purpose, uid |-> uid, tok |-> tok]

\* A new request is served by the first slot that is idle: the slots are
\* interchangeable, so which idle one takes it makes no difference.
Free(p) ==
    /\ proc[p].pc = "idle"
    /\ \A r \in Procs : r < p => proc[r].pc # "idle"

\* What an operation returns or raises: op(tok, purpose) ended with res; a
\* successful validate returns uid; an issue that reached send_email tells
\* what it did (mail).
Result(op, tok, purpose, res, uid, mail) ==
    [op |-> op, tok |-> tok, purpose |-> purpose, res |-> res, uid |-> uid, mail |-> mail]

NoResult == Result("none", 0, "none", "none", "none", "none")

\* The history kept of a token value: what it was generated with, whether
\* its insert succeeded (stored), whether the mail transport or its stand-in
\* was reached for it (asked), and what the validate calls on it did:
\*   tried   a call was made with its purpose, after it was stored, before expiry
\*   succ    calls that succeeded
\*   expired a call on it has completed with Expired
LedgerEntry(doc, purpose) ==
    [user_id |-> doc.user_id, purpose |-> purpose,
     created_at |-> doc.created_at, expires_at |-> doc.expires_at,
     stored |-> FALSE, asked |-> FALSE,
     tried |-> FALSE, succ |-> 0, expired |-> FALSE]

Init ==
    /\ clock = 0
    /\ users = [u \in {} |-> 0]
    /\ email_verification_tokens = <<>>
    /\ reset_password_tokens = <<>>
    /\ proc = [p \in Procs |-> Idle]
    /\ result = NoResult
    /\ ledger = <<>>
    /\ cap = MaxTokens

\* ------------------------------------------------------------------ clock
Tick ==
    /\ clock + TickHours <= MaxClock
    /\ clock' = clock + TickHours
    /\ result' = NoResult
    /\ UNCHANGED <<users, email_verification_tokens, reset_password_tokens, proc, ledger, cap>>

\* ------------------------------------------------------------------ issue
\* Faulty variant: the insert replaces the tokens the user already has.
StoreEmailVerificationReplacing(doc) ==
    /\ email_verification_tokens' =
           InsertOne(SelectSeq(email_verification_tokens,
                               LAMBDA d : d.user_id # doc.user_id), doc)
    /\ UNCHANGED reset_password_tokens

\* db.email_verification_tokens.insert_one(user_verification.dict())
StoreEmailVerification(doc) ==
    /\ email_verification_tokens' = InsertOne(email_verification_tokens, doc)
    /\ UNCHANGED reset_password_tokens

\* Faulty variant: the reset token is inserted into the verification collection.
StoreResetInVerification(doc) ==
    /\ email_verification_tokens' = InsertOne(email_verification_tokens, doc)
    /\ UNCHANGED reset_password_tokens

\* db.reset_password_tokens.insert_one(user_verification.dict())
StoreResetPassword(doc) ==
    /\ reset_password_tokens' = InsertOne(reset_password_tokens, doc)
    /\ UNCHANGED email_verification_tokens

\* Faulty variant: the exception of the insert is swallowed and the mail is sent.
InsertRaisedIgnored(p, user_id, purpose, value) ==
    /\ proc' = [proc EXCEPT ![p] = Slot("send", purpose, user_id, value)]
    /\ result' = NoResult

\* insert_one raises: the exception leaves setup_*, nothing after it runs.
InsertRaised(p, user_id, purpose, value) ==
    /\ proc' = [proc EXCEPT ![p] = Idle]
    /\ result' = Result("issue", value, purpose, "StorageUnavailable", "none", "none")

\* The first half of setup_email_verification / setup_reset_password_email:
\* build the token document and insert it.  When the insert raises, the
\* function is left there and the lines that send the mail are not reached.
SetupStore(p, user_id, purpose, putOk) ==
    LET doc == NewToken(FreshToken, user_id, purpose, clock)
        entry == LedgerEntry(doc, purpose)
    IN  /\ Len(ledger) < cap           \* bound: no value is generated past the cap
        /\ IF putOk
           THEN /\ IF purpose = EmailVerification
                   THEN StoreEmailVerification(doc)
                   ELSE StoreResetPassword(doc)
                /\ ledger' = Append(ledger, [entry EXCEPT !.stored = TRUE])
                /\ proc' = [proc EXCEPT ![p] = Slot("send", purpose, user_id, doc.token)]
                /\ result' = NoResult
           ELSE /\ UNCHANGED <<email_verification_tokens, reset_password_tokens>>
                /\ ledger' = Append(ledger, entry)
                /\ InsertRaised(p, user_id, purpose, doc.token)
        /\ UNCHANGED <<clock, users, cap>>

\* send_email: with SMTP_USER and SMTP_PASS set the message goes to the
\* transport, whose failure raises; without them a warning is logged.
send_email(configured, smtpOk) ==
    IF configured THEN (IF smtpOk THEN "sent" ELSE "failed") ELSE "skipped"

\* What setup_* ends with, given what send_email did: an exception raised
\* by the transport is not caught and leaves the function.
SetupResult(outcome) == IF outcome = "failed" THEN "NotificationError" ELSE "ok"

\* The second half of setup_*: build the message and send it.
SetupSend(p, configured, smtpOk) ==
    LET outcome == send_email(configured, smtpOk)
    IN  /\ proc[p].pc = "send"
        /\ ledger' = [ledger EXCEPT ![proc[p].tok].asked = TRUE]
        /\ proc' = [proc EXCEPT ![p] = Idle]
        /\ result' = Result("issue", proc[p].tok, proc[p].purpose,
                             SetupResult(outcome), "none", outcome)
        /\ UNCHANGED <<clock, users, email_verification_tokens, reset_password_tokens, cap>>

\* setup_email_verification / setup_reset_password_email called on its own:
\* the functions take the user_id as given and do not read db.users.
Issue(p, user_id, purpose, putOk) ==
    /\ Free(p)
    /\ SetupStore(p, user_id, purpose, putOk)

\* ---------------------------------------------------------------- accounts
\* UserInDB as create_user builds it: a new account is unverified and inactive.
NewUser(name) == [email_verified |-> FALSE, is_active |-> FALSE, f_name |-> name]

\* The fields an UpdateUserIn can carry: profile data only.
UpdateUserIn == [f_name : Names]

\* Faulty variant: the document is replaced, fields not given fall back to
\* what a new account has.
UpdateOneReplacing(coll, user_id, fields) ==
    IF user_id \in DOMAIN coll
    THEN [coll EXCEPT ![user_id] =
            [k \in DOMAIN coll[user_id] |->
                IF k \in DOMAIN fields THEN fields[k] ELSE NewUser(coll[user_id].f_name)[k]]]
    ELSE coll

\* db.users.update_one({"user_id": user_id}, {"$set": fields}): sets the
\* fields on the matching document; no document, no change.
UpdateOne(coll, user_id, fields) ==
    IF user_id \in DOMAIN coll
    THEN [coll EXCEPT ![user_id] =
            [k \in DOMAIN coll[user_id] |->
                IF k \in DOMAIN fields THEN fields[k] ELSE coll[user_id][k]]]
    ELSE coll

\* update_user: $set of the fields of user_in on the account; an update_one
\* that raises leaves the handler with the account as it was.
UpdateUser(u, user_in, updateOk) ==
    /\ u \in DOMAIN users
    /\ users' = IF updateOk THEN UpdateOne(users, u, user_in) ELSE users
    /\ result' = NoResult
    /\ UNCHANGED <<clock, email_verification_tokens, reset_password_tokens, proc, ledger, cap>>

\* Faulty variant: the task that was added runs although the insert raised.
CreateUserTaskAnyway(p, u, name, insertOk) ==
    /\ Free(p)
    /\ u \notin DOMAIN users
    /\ IF insertOk
       THEN /\ users' = [x \in DOMAIN users \cup {u} |->
                            IF x = u THEN NewUser(name) ELSE users[x]]
            /\ result' = Result("create", 0, "none", "ok", u, "none")
       ELSE /\ UNCHANGED users
            /\ result' = Result("create", 0, "none", "StorageUnavailable", u, "none")
    /\ proc' = [proc EXCEPT ![p] = Slot("task", EmailVerification, u, 0)]
    /\ UNCHANGED <<clock, email_verification_tokens, reset_password_tokens, ledger, cap>>

\* create_user: UserInDB gives the new user a user_id no account has; the
\* verification task is added to the background tasks, then the user is
\* inserted.  The tasks run after the response has been sent; an insert that
\* raises ends the request without a response to run them after.
CreateUser(p, u, name, insertOk) ==
    /\ Free(p)
    /\ u \notin DOMAIN users
    /\ IF insertOk
       THEN /\ users' = [x \in DOMAIN users \cup {u} |->
                            IF x = u THEN NewUser(name) ELSE users[x]]
            /\ proc' = [proc EXCEPT ![p] = Slot("task", EmailVerification, u, 0)]
            /\ result' = Result("create", 0, "none", "ok", u, "none")
       ELSE /\ UNCHANGED <<users, proc>>
            /\ result' = Result("create", 0, "none", "StorageUnavailable", u, "none")
    /\ UNCHANGED <<clock, email_verification_tokens, reset_password_tokens, ledger, cap>>

\* The background task of create_user: setup_email_verification(user_id, ...).
VerificationTask(p, putOk) ==
    /\ proc[p].pc = "task"
    /\ SetupStore(p, proc[p].uid, EmailVerification, putOk)

\* --------------------------------------------------------------- validate
\* Faulty variant: expires_at is not looked at.
ConsumeOutcomeNoExpiry(value, purpose, now) ==
    IF Holds(Collection(purpose), value) THEN "ok"
    ELSE IF Holds(Collection(Other(purpose)), value) THEN "PurposeMismatch"
    ELSE "NotFound"

\* Faulty variant: a value the store holds no record of is reported as Expired.
ConsumeOutcomeAbsentExpired(value, purpose, now) ==
    IF Holds(Collection(purpose), value)
    THEN IF now > FindOne(Collection(purpose), value).expires_at THEN "Expired" ELSE "ok"
    ELSE IF Holds(Collection(Other(purpose)), value) THEN "PurposeMismatch"
    ELSE "Expired"

\* What consumeIfValid reports: the record is looked up by value, its purpose
\* (the collection that holds it) is compared with the one asked for, then
\* now is compared with expires_at.
ConsumeOutcome(value, purpose, now) ==
    IF Holds(Collection(purpose), value)
    THEN IF now > FindOne(Collection(purpose), value).expires_at THEN "Expired" ELSE "ok"
    ELSE IF Holds(Collection(Other(purpose)), value) THEN "PurposeMismatch"
    ELSE "NotFound"

\* The collections after delete_one of the value in the purpose's collection.
Removed(value, purpose) ==
    IF purpose = EmailVerification
    THEN /\ email_verification_tokens' = DeleteOne(email_verification_tokens, value)
         /\ UNCHANGED reset_password_tokens
    ELSE /\ reset_password_tokens' = DeleteOne(reset_password_tokens, value)
         /\ UNCHANGED email_verification_tokens

\* The history of a token value after a validate attempt on it.
Noted(value, purpose, now, out) ==
    IF value \in 1..Len(ledger)
    THEN [ledger EXCEPT
            ![value].succ = IF out = "ok" THEN @ + 1 ELSE @,
            ![value].tried = @ \/ (/\ ledger[value].stored
                                   /\ purpose = ledger[value].purpose
                                   /\ now <= ledger[value].expires_at)]
    ELSE ledger

\* Faulty variant: the record found valid is returned and left in the store.
ConsumeKeepsRecord(value, purpose, out) ==
    UNCHANGED <<email_verification_tokens, reset_password_tokens>>

\* What consumeIfValid does to the store: a valid record is deleted in the
\* same step that finds it; otherwise the store is left as it is.
ConsumeIfValid(value, purpose, out) ==
    IF out = "ok"
    THEN Removed(value, purpose)
    ELSE UNCHANGED <<email_verification_tokens, reset_password_tokens>>

\* Faulty variant: read, then act.  The store step only looks the record up; a
\* record found valid is deleted by a second step of the same request.
ValidateReadThenDelete(p, value, purpose) ==
    LET out == ConsumeOutcome(value, purpose, clock)
        uid == IF out = "ok" THEN FindOne(Collection(purpose), value).user_id ELSE "none"
    IN  /\ Free(p)
        /\ UNCHANGED <<email_verification_tokens, reset_password_tokens>>
        /\ ledger' = Noted(value, purpose, clock, out)
        /\ result' = Result("validate", value, purpose, out, uid, "none")
        /\ proc' = [proc EXCEPT ![p] =
               IF out \in {"ok", "Expired"} THEN Slot("purge", purpose, "none", value)
               ELSE Idle]
        /\ UNCHANGED <<clock, users, cap>>

\* validate(token_value, purpose, now), its store step: the atomic
\* consumeIfValid.  On Expired the validator goes on to delete the record; on
\* a successful EmailVerification the handler goes on to the account update.
ValidateConsume(p, value, purpose) ==
    LET out == ConsumeOutcome(value, purpose, clock)
        uid == IF out = "ok" THEN FindOne(Collection(purpose), value).user_id ELSE "none"
    IN  /\ Free(p)
        /\ ConsumeIfValid(value, purpose, out)
        /\ ledger' = Noted(value, purpose, clock, out)
        /\ result' = Result("validate", value, purpose, out, uid, "none")
        /\ proc' = [proc EXCEPT ![p] =
               IF out = "Expired" THEN Slot("purge", purpose, "none", value)
               ELSE IF out = "ok" /\ purpose = EmailVerification
                    THEN Slot("apply", purpose, uid, value)
               ELSE Idle]
        /\ UNCHANGED <<clock, users, cap>>

\* The validator removes the record it found expired (deleting an absent
\* record changes nothing).
Purge(p) ==
    /\ proc[p].pc = "purge"
    /\ Removed(proc[p].tok, proc[p].purpose)
    /\ ledger' = [ledger EXCEPT ![proc[p].tok].expired = TRUE]
    /\ proc' = [proc EXCEPT ![p] = Idle]
    /\ result' = NoResult
    /\ UNCHANGED <<clock, users, cap>>

\* Faulty variant: the filter matches every account.
VerifyEmailUpdateAll(user_id) ==
    [u \in DOMAIN users |-> [users[u] EXCEPT !.email_verified = TRUE, !.is_active = TRUE]]

\* verify_email: update_one({"user_id": user_id},
\*                          {"$set": {"email_verified": True, "is_active": True}})
VerifyEmailUpdate(user_id) ==
    UpdateOne(users, user_id, [email_verified |-> TRUE, is_active |-> TRUE])

\* verify_email, after its dependency has returned the token's user_id (and
\* consumed the token).  An update_one that raises is not caught: the request
\* ends there, with the account as it was.
VerifyEmail(p, updateOk) ==
    /\ proc[p].pc = "apply"
    /\ IF updateOk
       THEN /\ users' = VerifyEmailUpdate(proc[p].uid)
            /\ result' = NoResult
       ELSE /\ UNCHANGED users
            /\ result' = Result("verify", proc[p].tok, proc[p].purpose,
                                 "StorageUnavailable", proc[p].uid, "none")
    /\ proc' = [proc EXCEPT ![p] = Idle]
    /\ UNCHANGED <<clock, email_verification_tokens, reset_password_tokens, ledger, cap>>

\* ------------------------------------------------------------------- next
Next ==
    \/ Tick
    \/ \E p \in Procs, u \in UserIds, n \in Names, ok \in BOOLEAN : CreateUser(p, u, n, ok)
    \/ \E p \in Procs, ok \in BOOLEAN : VerificationTask(p, ok)
    \/ \E p \in Procs, u \in UserIds, q \in Purposes, ok \in BOOLEAN : Issue(p, u, q, ok)
    \/ \E p \in Procs, c \in BOOLEAN, ok \in BOOLEAN : SetupSend(p, c, ok)
    \/ \E u \in UserIds, user_in \in UpdateUserIn, ok \in BOOLEAN : UpdateUser(u, user_in, ok)
    \/ \E p \in Procs, t \in TokenValues, q \in Purposes : ValidateConsume(p, t, q)
    \/ \E p \in Procs : Purge(p)
    \/ \E p \in Procs, ok \in BOOLEAN : VerifyEmail(p, ok)

Spec == Init /\ [][Next]_vars

\* ------------------------------------------------------------ registration
\* The same operations without issue called on its own: every token is the
\* one the background task of a create_user generates.
NextRegistration ==
    \/ Tick
    \/ \E p \in Procs, u \in UserIds, n \in Names, ok \in BOOLEAN : CreateUser(p, u, n, ok)
    \/ \E p \in Procs, ok \in BOOLEAN : VerificationTask(p, ok)
    \/ \E p \in Procs, c \in BOOLEAN, ok \in BOOLEAN : SetupSend(p, c, ok)
    \/ \E u \in UserIds, user_in \in UpdateUserIn, ok \in BOOLEAN : UpdateUser(u, user_in, ok)
    \/ \E p \in Procs, t \in TokenValues, q \in Purposes : ValidateConsume(p, t, q)
    \/ \E p \in Procs : Purge(p)
    \/ \E p \in Procs, ok \in BOOLEAN : VerifyEmail(p, ok)

SpecRegistration == Init /\ [][NextRegistration]_vars

\* ---------------------------------------------------------------- re-issue
\* The same operations with room for several tokens of one user: every
\* request is about user u1, registered with the name "a", and is served by
\* one of two slots; every operation keeps all its branches.
InitReissue ==
    /\ clock = 0
    /\ users = [u \in {} |-> 0]
    /\ email_verification_tokens = <<>>
    /\ reset_password_tokens = <<>>
    /\ proc = [p \in Procs |-> Idle]
    /\ result = NoResult
    /\ ledger = <<>>
    /\ cap = MaxReissued

\* Two request slots take the steps; the others stay idle.
ReissueProcs == {1, 2}

NextReissue ==
    \/ Tick
    \/ \E p \in ReissueProcs, ok \in BOOLEAN : CreateUser(p, "u1", "a", ok)
    \/ \E p \in ReissueProcs, ok \in BOOLEAN : VerificationTask(p, ok)
    \/ \E p \in ReissueProcs, q \in Purposes, ok \in BOOLEAN : Issue(p, "u1", q, ok)
    \/ \E p \in ReissueProcs, c \in BOOLEAN, ok \in BOOLEAN : SetupSend(p, c, ok)
    \/ \E ok \in BOOLEAN : UpdateUser("u1", [f_name |-> "a"], ok)
    \/ \E p \in ReissueProcs, t \in 1..MaxReissued, q \in Purposes : ValidateConsume(p, t, q)
    \/ \E p \in ReissueProcs : Purge(p)
    \/ \E p \in ReissueProcs, ok \in BOOLEAN : VerifyEmail(p, ok)

SpecReissue == InitReissue /\ [][NextReissue]_vars

\* ----------------------------------------------------------------- claims
Issued == 1..Len(ledger)

InStore(value) ==
    Holds(email_verification_tokens, value) \/ Holds(reset_password_tokens, value)

\* The step just taken was the store step of validate(t, q, clock).
Validated(t, q) == result.op = "validate" /\ result.tok = t /\ result.purpose = q

ValidatedOn(t) == \E q \in Purposes : Validated(t, q)

\* The document issue built for token value t.
IssuedDoc(t) ==
    [token |-> t, user_id |-> ledger[t].user_id,
     created_at |-> ledger[t].created_at, expires_at |-> ledger[t].expires_at]

\* C1 (single use): over any sequence of validate calls on a token value, at
\* most one succeeds, and a validate made on a value after one has succeeded
\* on it fails with NotFound.
C1_SingleUse ==
    \A t \in Issued :
        /\ ledger[t].succ <= 1
        /\ (ValidatedOn(t) /\ ledger[t].succ >= 1 /\ result.res # "ok") =>
               result.res = "NotFound"

\* A validate has succeeded on a value and a later validate on it has just
\* been refused.
C1_Witness ==
    \E t \in Issued :
        /\ ledger[t].succ = 1
        /\ ~InStore(t)
        /\ ValidatedOn(t)
        /\ result.res = "NotFound"

\* C2 (concurrent single use): however the store steps of the validate calls
\* made on one stored token with its purpose and before its expiry are
\* ordered among the request slots, exactly one of the calls succeeds and all
\* the others fail.
C2_ExactlyOneWinner ==
    \A t \in Issued : ledger[t].tried => ledger[t].succ = 1

\* While the winner's request is still in flight, a second call on the token
\* with the same purpose has just been refused.
C2_Witness ==
    \E t \in Issued :
        /\ ledger[t].tried
        /\ ledger[t].succ = 1
        /\ \E p \in Procs : proc[p].pc = "apply" /\ proc[p].tok = t
        /\ Validated(t, ledger[t].purpose)
        /\ result.res = "NotFound"

\* C3 (round trip): for both purposes, a validate made with the purpose a
\* token was issued for, after it was stored and before its expiry, succeeds
\* unless the token was consumed before; a validate that succeeds returns the
\* user_id the token was issued for.
C3_RoundTrip ==
    \A t \in Issued, q \in Purposes :
        Validated(t, q) =>
            /\ result.res = "ok" =>
                   /\ result.uid = ledger[t].user_id
                   /\ q = ledger[t].purpose
            /\ (/\ q = ledger[t].purpose
                /\ ledger[t].stored
                /\ clock <= ledger[t].expires_at
                /\ result.res # "ok") => ledger[t].succ >= 1

\* A PasswordReset token has just been validated and its user returned.
C3_Witness ==
    \E t \in Issued :
        /\ ledger[t].purpose = PasswordReset
        /\ Validated(t, PasswordReset)
        /\ result.res = "ok"
        /\ result.uid = ledger[t].user_id

\* The record of token value t is still where issue stored it: it was stored,
\* no validate has consumed it and none has removed it as expired.
Unspent(t) == ledger[t].stored /\ ledger[t].succ = 0 /\ ~ledger[t].expired

C5_PurposeMismatch ==
    \A t \in Issued, q \in Purposes :
        (/\ Validated(t, q)
         /\ q # ledger[t].purpose
         /\ ledger[t].stored
         /\ clock <= ledger[t].expires_at) =>
            /\ result.res # "ok"
            /\ ledger[t].succ = 0 =>
                   /\ result.res = "PurposeMismatch"
                   /\ Holds(Collection(ledger[t].purpose), t)
                   /\ FindOne(Collection(ledger[t].purpose), t) = IssuedDoc(t)
                   /\ ~Holds(Collection(q), t)
                   /\ ConsumeOutcome(t, ledger[t].purpose, clock) = "ok"

\* A PasswordReset token has just been refused under EmailVerification and
\* is still in its collection.
C5_Witness ==
    \E t \in Issued :
        /\ ledger[t].purpose = PasswordReset
        /\ Validated(t, EmailVerification)
        /\ result.res = "PurposeMismatch"
        /\ Holds(reset_password_tokens, t)
        /\ clock <= ledger[t].expires_at

\* C6 (verification effect): when a validate with purpose EmailVerification
\* has succeeded on a token issued for user u, an existing account, the request
\* ends with the account of u having email_verified and is_active set.
C6_VerificationEffect ==
    [][\A p \in Procs :
          (/\ proc[p].pc = "apply"
           /\ proc'[p].pc = "idle"
           /\ proc[p].tok \in Issued
           /\ ledger[proc[p].tok].purpose = EmailVerification
           /\ ledger[proc[p].tok].succ >= 1
           /\ ledger[proc[p].tok].user_id = proc[p].uid
           /\ proc[p].uid \in DOMAIN users) =>
              /\ users'[proc[p].uid].email_verified
              /\ users'[proc[p].uid].is_active]_vars

\* C7 (failed persistence means no issuance): an issue whose insert fails
\* ends with StorageUnavailable; its token is in no collection, no request is
\* about to send for it and the dispatcher is never asked to send for it.
C7_NoIssuance ==
    /\ \A t \in Issued :
          ~ledger[t].stored =>
              /\ ~InStore(t)
              /\ ~ledger[t].asked
              /\ \A p \in Procs : ~(proc[p].pc = "send" /\ proc[p].tok = t)
              /\ (result.op = "issue" /\ result.tok = t) =>
                     result.res = "StorageUnavailable"
    /\ (result.op = "issue" /\ result.res = "StorageUnavailable") =>
          /\ result.tok \in Issued
          /\ ~ledger[result.tok].stored
          /\ result.mail = "none"

\* An issue has just ended with StorageUnavailable.
C7_Witness ==
    \E t \in Issued :
        /\ ~ledger[t].stored
        /\ ~InStore(t)
        /\ result.op = "issue"
        /\ result.tok = t
        /\ result.res = "StorageUnavailable"

\* C8 (notification failure is isolated): when the dispatcher fails or is
\* skipped while sending the link, issue still completes successfully and the
\* token record has been stored.
C8_NotificationIsolated ==
    (result.op = "issue" /\ result.mail \in {"failed", "skipped"}) =>
        /\ result.res = "ok"
        /\ ledger[result.tok].stored

\* C9 (account frame): email_verified and is_active of an account change only
\* in the account-update step of a request whose validate succeeded with
\* purpose EmailVerification on a token of that account; no step removes an
\* account, and a new account starts with both fields unset.
C9_AccountFrame ==
    [][/\ DOMAIN users \subseteq DOMAIN users'
       /\ \A u \in DOMAIN users' \ DOMAIN users :
              ~users'[u].email_verified /\ ~users'[u].is_active
       /\ \A u \in DOMAIN users :
              (\/ users'[u].email_verified # users[u].email_verified
               \/ users'[u].is_active # users[u].is_active) =>
                  \E p \in Procs :
                      /\ proc[p].pc = "apply"
                      /\ proc'[p].pc = "idle"
                      /\ proc[p].uid = u
                      /\ proc[p].tok \in Issued
                      /\ ledger[proc[p].tok].user_id = u
                      /\ ledger[proc[p].tok].purpose = EmailVerification
                      /\ ledger[proc[p].tok].succ >= 1]_vars

\* One account has been verified while another, whose profile was updated,
\* is still unverified and inactive.
C9_Witness ==
    \E u \in DOMAIN users, v \in DOMAIN users :
        /\ u # v
        /\ users[u].email_verified /\ users[u].is_active
        /\ ~users[v].email_verified /\ ~users[v].is_active
        /\ users[v].f_name = "b"

\* expires_at - created_at of the documents of a collection is ttl hours.
TtlIs(coll, ttl) ==
    \A i \in 1..Len(coll) :
        /\ coll[i].expires_at = coll[i].created_at + ttl
        /\ coll[i].expires_at > coll[i].created_at

\* C10 (TTL): every document of the verification collection expires 48 hours
\* after its creation and every document of the reset collection 24 hours
\* after its creation, as does every token issue has generated; so
\* expires_at > created_at for every record.
C10_TTL ==
    /\ TtlIs(email_verification_tokens, 48)
    /\ TtlIs(reset_password_tokens, 24)
    /\ \A t \in Issued :
          /\ ledger[t].expires_at - ledger[t].created_at =
                (IF ledger[t].purpose = EmailVerification THEN 48 ELSE 24)
          /\ ledger[t].expires_at > ledger[t].created_at

\* The reset collection holds a document created after the clock started.
C10_Witness ==
    \E i \in 1..Len(reset_password_tokens) :
        /\ reset_password_tokens[i].created_at > 0
        /\ reset_password_tokens[i].expires_at = reset_password_tokens[i].created_at + 24

\* Tokens t and s were both stored for the same account and the same purpose.
Siblings(t, s) ==
    /\ t # s
    /\ ledger[t].stored /\ ledger[s].stored
    /\ ledger[t].user_id = ledger[s].user_id
    /\ ledger[t].purpose = ledger[s].purpose

\* C11 (re-issue does not invalidate): when several tokens have been stored
\* for one account and purpose, each of them that has not been consumed or
\* removed as expired is in its collection as issue stored it, whatever was
\* issued or consumed beside it; before its expiry a validate on it would
\* succeed, a validate on it fails only if it was itself consumed before, and
\* it is consumed at most once.
C11_ReissueKeeps ==
    \A t \in Issued, s \in Issued :
        Siblings(t, s) =>
            /\ (ledger[t].succ = 0 /\ ~ledger[t].expired) =>
                   /\ Holds(Collection(ledger[t].purpose), t)
                   /\ FindOne(Collection(ledger[t].purpose), t) = IssuedDoc(t)
            /\ (ledger[t].succ = 0 /\ clock <= ledger[t].expires_at) =>
                   ConsumeOutcome(t, ledger[t].purpose, clock) = "ok"
            /\ (/\ Validated(t, ledger[t].purpose)
                /\ clock <= ledger[t].expires_at
                /\ result.res # "ok") => ledger[t].succ >= 1
            /\ ledger[t].succ <= 1

\* Two tokens of one account and purpose: the later one was consumed first,
\* and the earlier one has just been validated successfully.
C11_Witness ==
    \E t \in Issued, s \in Issued :
        /\ Siblings(t, s)
        /\ t < s
        /\ ledger[s].succ = 1
        /\ ledger[t].succ = 1
        /\ Validated(t, ledger[t].purpose)
        /\ result.res = "ok"
        /\ result.uid = ledger[s].user_id

\* C12 (unknown token): a validate made with a value of which neither
\* collection holds a record (never issued, already consumed, or removed
\* after expiry) fails with NotFound, and its request ends there: both
\* collections, every account and every request slot are as they were.
C12_UnknownToken ==
    [][\A t \in TokenValues :
          (result'.op = "validate" /\ result'.tok = t /\ ~InStore(t)) =>
              /\ result'.res = "NotFound"
              /\ result'.uid = "none"
              /\ email_verification_tokens' = email_verification_tokens
              /\ reset_password_tokens' = reset_password_tokens
              /\ users' = users
              /\ proc' = proc]_vars

\* A value that was never generated has just been refused with NotFound,
\* while an account exists.
C12_Witness ==
    \E t \in TokenValues \ Issued :
        /\ ValidatedOn(t)
        /\ result.res = "NotFound"
        /\ DOMAIN users # {}

\* C14 (verified is terminal): an account that has email_verified set is
\* still there and still has it set after any step: an issue, a validate, a
\* create_user, an update_user, or any step of a request in flight.
C14_VerifiedTerminal ==
    [][\A u \in DOMAIN users :
          users[u].email_verified =>
              /\ u \in DOMAIN users'
              /\ users'[u].email_verified]_vars

\* A validate of the consumed token of a verified account has just been
\* refused: the account was verified before that step and still is.
C14_Witness ==
    \E t \in Issued :
        /\ ledger[t].purpose = EmailVerification
        /\ ledger[t].succ = 1
        /\ ledger[t].user_id \in DOMAIN users
        /\ users[ledger[t].user_id].email_verified
        /\ Validated(t, EmailVerification)
        /\ result.res = "NotFound"

\* The slots, token values and records that refer to user u.
Refers(u) ==
    \/ \E p \in Procs : proc[p].uid = u
    \/ \E t \in Issued : ledger[t].user_id = u
    \/ \E i \in 1..Len(email_verification_tokens) : email_verification_tokens[i].user_id = u
    \/ \E i \in 1..Len(reset_password_tokens) : reset_password_tokens[i].user_id = u

\* C15 (registration ordering): the task create_user adds runs only once the
\* user has been inserted, so a pending task, every token value generated and
\* every record of the verification collection has the user_id of an account
\* in users; a create_user whose insert failed has inserted no account, left
\* no task to run and no token.
C15_RegistrationOrdering ==
    /\ \A p \in Procs : proc[p].pc = "task" => proc[p].uid \in DOMAIN users
    /\ \A t \in Issued :
          /\ ledger[t].purpose = EmailVerification
          /\ ledger[t].user_id \in DOMAIN users
    /\ \A i \in 1..Len(email_verification_tokens) :
          email_verification_tokens[i].user_id \in DOMAIN users
    /\ (result.op = "create" /\ result.res # "ok") =>
          /\ result.uid \notin DOMAIN users
          /\ ~Refers(result.uid)

\* The token of one registration is in the verification collection, and the
\* create_user of another user has just failed at its insert.
C15_Witness ==
    /\ \E i \in 1..Len(email_verification_tokens) :
          /\ email_verification_tokens[i].user_id \in DOMAIN users
          /\ email_verification_tokens[i].user_id # result.uid
    /\ result.op = "create"
    /\ result.res = "StorageUnavailable"
    /\ result.uid \notin DOMAIN users
====
